---- MODULE Spec2Model ----
(***************************************************************************)
(* A model of count.py, the release summarizer: a sequential script that   *)
(* queries Gerrit for the merged changes of the configured repositories,   *)
(* tallies commits, review messages and line counts per account, and       *)
(* prints a leaderboard or a summary.  Three specifications:               *)
(*   Spec      - one run of the script (aggregation loop and report);      *)
(*   SpecCache - the three cached fetch functions over time and restarts;  *)
(*   SpecParse - response_body_to_json over bounded response bodies.       *)
(***************************************************************************)
EXTENDS Integers, Sequences, FiniteSets, TLC

VARIABLES
    \* ---- one run of the script
    IGNORED_USERS,      \* repositories.get('ignored_users'): Some(set of ids), or None
    repositories,       \* repositories.get('repositories'): sequence of repo configs
    mode,               \* the flag given: "reviews", "commits" or "summary"
    pc,                 \* position of the script
    repo_idx,           \* index of `repository` in the outer for loop
    reviews,            \* the list returned by get_merged_reviews_for_repository
    review_idx,         \* index of `review` in the loop over reviews
    messages,           \* details['messages'] of the current review
    msg_idx,            \* index of `message` in the loop over messages
    contributors,       \* the dict account id -> Contributor, in insertion order
    total_commits, total_reviews, total_additions, total_deletions,
    project_additions, project_deletions,
    cl,                 \* the reportable list
    output,             \* the lines printed
    gerrit,             \* what Gerrit has answered so far: changes and their details
    queries,            \* history: per repository, what Gerrit answered to each query
    fetched,            \* history: the change numbers of every list of reviews so far
    created,            \* history: Contributor(...) constructions per account id
    \* ---- the cached fetch functions
    cache,              \* the dbm file: key -> stored entry
    clock,              \* time.time()
    nticks,             \* number of clock advances so far
    run,                \* number of the current process
    ncalls,             \* number of cached calls made so far
    last,               \* the latest cached call and what it did
    storedAt,           \* history: (function, argument) -> time of its latest store
    storedVal,          \* history: (function, argument) -> value of its latest store
    \* ---- the response parser
    body,               \* r.text handed to response_body_to_json
    parsed              \* its outcome

aggVars == <<IGNORED_USERS, repositories, mode, pc, repo_idx, reviews, review_idx,
             messages, msg_idx, contributors, total_commits, total_reviews,
             total_additions, total_deletions, project_additions,
             project_deletions, cl, output, gerrit, queries, fetched, created>>
cacheVars == <<cache, clock, nticks, run, ncalls, last, storedAt, storedVal>>
parseVars == <<body, parsed>>
vars == <<aggVars, cacheVars, parseVars>>

----------------------------------------------------------------------------
(* Bounds of the model *)

\* the largest account id Gerrit hands out (account ids are positive integers)
MaxAccount == 2
\* the largest change number
MaxChange == 2
\* the most repositories in a configuration
MaxRepos == 1
\* the most changes the default-window query returns
MaxChanges == 2
\* the most changes the stable-branch query returns
MaxStableChanges == 1
\* the most messages in the detail of a change
MaxMessages == 2

Accounts == 1..MaxAccount
ChangeNums == 1..MaxChange

\* An optional value is a sequence of at most one element: <<>> is Python's
\* None (a key a .get() does not find, a message without 'author')
None == <<>>
Some(x) == <<x>>

RangeOf(s) == {s[i] : i \in 1..Len(s)}

SeqsUpTo(S, n) == UNION {[1..k -> S] : k \in 0..n}

RECURSIVE SumOver(_, _)
SumOver(s, f) == IF s = <<>> THEN 0 ELSE s[1][f] + SumOver(Tail(s), f)

----------------------------------------------------------------------------
(* Gerrit, as the script sees it *)

\* the 'name' of the account document of an account id: names differ from
\* account to account, and those of odd ids carry a comma
AccountName(account_id) ==
    [i \in 1..(account_id + 1) |-> IF i = 2 /\ account_id % 2 = 1 THEN "," ELSE "n"]

\* the line counts Gerrit reports for a change
LineCounts == {[insertions |-> 1, deletions |-> 2], [insertions |-> 3, deletions |-> 0]}

\* the entries of a /changes/?q= answer: owner and line counts of a change
ChangeData == {[owner |-> a, insertions |-> l.insertions, deletions |-> l.deletions] :
                  a \in Accounts, l \in LineCounts}

\* the 'messages' of a /changes/<n>/detail answer: of each message its
\* author's account id, or None when it has no 'author'
MessageLists == SeqsUpTo({Some(a) : a \in Accounts} \cup {None}, MaxMessages)

\* a review as the loop reads it: review['_number'], review['owner'], ...
Review(n, g) ==
    [number |-> n, owner |-> g.changes[n][1].owner,
     insertions |-> g.changes[n][1].insertions,
     deletions |-> g.changes[n][1].deletions]

----------------------------------------------------------------------------
(* The configuration *)

RepositoryConfigs ==
    [name : {"repo"}, stable_branch : {Some(TRUE), Some(FALSE), None}]

\* a variant of MergedReviews that drops from the second answer the changes
\* the first one already has
MergedReviewsDeduplicated(repo, default_answer, stable_answer) ==
    LET Fresh(n) == n \notin RangeOf(default_answer) IN
    IF repo.stable_branch = Some(TRUE)
    THEN default_answer \o SelectSeq(stable_answer[1], Fresh)
    ELSE default_answer

\* line 54: `if repo.get('stable_branch')`
StableQueried(repo) == repo.stable_branch = Some(TRUE)

\* lines 41-62, get_merged_reviews_for_repository: the first answer, and the
\* answer of the second query appended when that query is made
MergedReviews(repo, default_answer, stable_answer) ==
    IF StableQueried(repo)
    THEN default_answer \o stable_answer[1]
    ELSE default_answer

----------------------------------------------------------------------------
(* The contributors dict *)

Contributor(account_id, name) ==
    [account_id |-> account_id, name |-> name, review_count |-> 0, commits |-> 0]

Keys(d) == {d[i].account_id : i \in 1..Len(d)}

IndexOf(d, k) == CHOOSE i \in 1..Len(d) : d[i].account_id = k

\* contributors[k] = c: a new key goes last, an existing key keeps its place
SetItem(d, k, c) ==
    IF k \in Keys(d) THEN [d EXCEPT ![IndexOf(d, k)] = c] ELSE Append(d, c)

GetItem(d, k) == d[IndexOf(d, k)]

\* `x not in IGNORED_USERS` raises TypeError when IGNORED_USERS is None
NotInRaises == IGNORED_USERS = None

Ignored(x) == IGNORED_USERS # None /\ x \in IGNORED_USERS[1]

\* line 124 and line 143: `x not in contributors.keys() and x not in IGNORED_USERS`
\* evaluates its second operand only when the first is true
CreatesRaises(d, x) == x \notin Keys(d) /\ NotInRaises

\* a variant of Creates that does not consult IGNORED_USERS
CreatesIgnoringNothing(d, x) == x \notin Keys(d)

Creates(d, x) == x \notin Keys(d) /\ ~Ignored(x)

\* lines 124-133: the owner of a review; the dict afterwards
AddCommit(d, user_id) ==
    IF Creates(d, user_id)
    THEN SetItem(d, user_id,
                 [Contributor(user_id, AccountName(user_id)) EXCEPT !.commits = @ + 1])
    ELSE IF user_id \in Keys(d)
    THEN SetItem(d, user_id, [GetItem(d, user_id) EXCEPT !.commits = @ + 1])
    ELSE d

\* a variant of CommitCounted that misses the increment of line 133
CommitCountedOnCreate(d, user_id) == user_id \notin Keys(d) /\ ~Ignored(user_id)

\* lines 129 and 133: whether total_commits is incremented for this owner
CommitCounted(d, user_id) == Creates(d, user_id) \/ user_id \in Keys(d)

\* a variant of IsReview that also counts the messages of the owner
IsReviewAnyAuthor(author_id, patch_owner) ==
    /\ author_id # None
    /\ author_id[1] # 0

\* line 142: `if author_id and author_id != patch_owner`
IsReview(author_id, patch_owner) ==
    /\ author_id # None
    /\ author_id[1] # 0
    /\ author_id[1] # patch_owner

\* a variant of AddReview that misses the increment of line 148
AddReviewUncounted(d, author_id) ==
    IF Creates(d, author_id)
    THEN SetItem(d, author_id, Contributor(author_id, AccountName(author_id)))
    ELSE IF author_id \in Keys(d)
    THEN SetItem(d, author_id, [GetItem(d, author_id) EXCEPT !.review_count = @ + 1])
    ELSE d

\* lines 143-151: the author of a message; the dict afterwards
AddReview(d, author_id) ==
    IF Creates(d, author_id)
    THEN SetItem(d, author_id,
                 [Contributor(author_id, AccountName(author_id))
                      EXCEPT !.review_count = @ + 1])
    ELSE IF author_id \in Keys(d)
    THEN SetItem(d, author_id, [GetItem(d, author_id) EXCEPT !.review_count = @ + 1])
    ELSE d

----------------------------------------------------------------------------
(* The report *)

\* line 160: the filter of the reportable list
Reportable(c) == c.review_count > 0 \/ c.commits > 0

\* a variant of InsertDesc that puts x before the elements of equal key
RECURSIVE InsertDescUnstable(_, _, _)
InsertDescUnstable(s, x, f) ==
    IF s = <<>> THEN <<x>>
    ELSE IF s[1][f] > x[f] THEN <<s[1]>> \o InsertDescUnstable(Tail(s), x, f)
    ELSE <<x>> \o s

\* where x goes in a list sorted in descending order of field f: behind
\* every element whose key is not smaller (sorted(..., reverse=True) is stable)
RECURSIVE InsertDesc(_, _, _)
InsertDesc(s, x, f) ==
    IF s = <<>> THEN <<x>>
    ELSE IF s[1][f] >= x[f] THEN <<s[1]>> \o InsertDesc(Tail(s), x, f)
    ELSE <<x>> \o s

RECURSIVE SortedAcc(_, _, _)
SortedAcc(acc, s, f) ==
    IF s = <<>> THEN acc ELSE SortedAcc(InsertDesc(acc, s[1], f), Tail(s), f)

\* lines 165 and 180: sorted(cl, key=lambda c: c.<f>, reverse=True)
SortedBy(s, f) == SortedAcc(<<>>, s, f)

\* lines 171 and 186: c.name.replace(',', ' ')
ReplaceCommas(name) == [i \in 1..Len(name) |-> IF name[i] = "," THEN " " ELSE name[i]]

\* lines 166-177 and 181-192: the lines printed for sorted_list[i..], with the
\* running sum so far; a share is kept as the pair <<count, total>>
RECURSIVE ReportLines(_, _, _, _, _)
ReportLines(sorted_list, i, f, total, running) ==
    IF i > Len(sorted_list) THEN <<>>
    ELSE IF sorted_list[i][f] # 0
    THEN << [rank |-> i,
             name |-> ReplaceCommas(sorted_list[i].name),
             count |-> sorted_list[i][f],
             share |-> <<sorted_list[i][f], total>>,
             running |-> <<running + sorted_list[i][f], total>>] >>
         \o ReportLines(sorted_list, i + 1, f, total, running + sorted_list[i][f])
    ELSE ReportLines(sorted_list, i + 1, f, total, running)

\* lines 168 and 183: the division raises ZeroDivisionError on a zero total
ReportRaises(sorted_list, f, total) ==
    total = 0 /\ \E i \in 1..Len(sorted_list) : sorted_list[i][f] # 0

\* lines 194-199
SummaryLines ==
    << [text |-> "+", n |-> total_additions],
       [text |-> "-", n |-> total_deletions],
       [text |-> "patches merged", n |-> total_commits],
       [text |-> "patches reviewed", n |-> total_reviews],
       [text |-> "total contributors", n |-> Len(cl)] >>

----------------------------------------------------------------------------
(* One run of the script *)

IdleCache ==
    /\ cache = <<>> /\ clock = 0 /\ nticks = 0 /\ run = 0 /\ ncalls = 0
    /\ last = <<>> /\ storedAt = <<>> /\ storedVal = <<>>

IdleParse == body = <<>> /\ parsed = <<>>

IdleAgg ==
    /\ IGNORED_USERS = None /\ repositories = <<>> /\ mode = "summary"
    /\ pc = "idle" /\ repo_idx = 0 /\ reviews = <<>> /\ review_idx = 0
    /\ messages = <<>> /\ msg_idx = 0 /\ contributors = <<>>
    /\ total_commits = 0 /\ total_reviews = 0
    /\ total_additions = 0 /\ total_deletions = 0
    /\ project_additions = 0 /\ project_deletions = 0
    /\ cl = <<>> /\ output = <<>>
    /\ gerrit = <<>> /\ queries = <<>> /\ fetched = <<>> /\ created = <<>>

\* lines 102-115: the arguments, the configuration, and the zeroed totals
Init ==
    /\ IGNORED_USERS \in {None} \cup {Some(S) : S \in SUBSET Accounts}
    /\ repositories \in SeqsUpTo(RepositoryConfigs, MaxRepos)
    /\ mode \in {"reviews", "commits", "summary"}
    /\ pc = "repository"
    /\ repo_idx = 1
    /\ reviews = <<>> /\ review_idx = 1
    /\ messages = <<>> /\ msg_idx = 1
    /\ contributors = <<>>
    /\ total_commits = 0 /\ total_reviews = 0
    /\ total_additions = 0 /\ total_deletions = 0
    /\ project_additions = 0 /\ project_deletions = 0
    /\ cl = <<>> /\ output = <<>>
    /\ gerrit = [changes |-> [n \in ChangeNums |-> None],
                 details |-> [n \in ChangeNums |-> None]]
    /\ queries = <<>>
    /\ fetched = <<>>
    /\ created = [a \in Accounts |-> 0]
    /\ IdleCache /\ IdleParse

\* lines 116-119: the next repository and its merged reviews.  Gerrit answers
\* with any lists of changes; a change it has described before is described
\* the same way again.
StartRepository ==
    /\ pc = "repository"
    /\ repo_idx <= Len(repositories)
    /\ LET repo == repositories[repo_idx] IN
       \E default_answer \in SeqsUpTo(ChangeNums, MaxChanges) :
       \E stable_answer \in IF StableQueried(repo)
                            THEN {Some(a) : a \in SeqsUpTo(ChangeNums, MaxStableChanges)}
                            ELSE {None} :
       LET numbers == MergedReviews(repo, default_answer, stable_answer) IN
       \E changes \in [ChangeNums -> {None} \cup {Some(c) : c \in ChangeData}] :
          /\ \A n \in ChangeNums :
                IF gerrit.changes[n] # None THEN changes[n] = gerrit.changes[n]
                ELSE (changes[n] # None) <=> (n \in RangeOf(numbers))
          /\ gerrit' = [gerrit EXCEPT !.changes = changes]
          /\ reviews' = [i \in 1..Len(numbers) |-> Review(numbers[i], gerrit')]
          /\ queries' = Append(queries, [default |-> default_answer,
                                         stable |-> stable_answer])
    /\ fetched' = fetched \o [i \in 1..Len(reviews') |-> reviews'[i].number]
    /\ project_additions' = 0
    /\ project_deletions' = 0
    /\ review_idx' = 1
    /\ pc' = "review"
    /\ UNCHANGED <<IGNORED_USERS, repositories, mode, repo_idx, messages, msg_idx,
                   contributors, total_commits, total_reviews, total_additions,
                   total_deletions, cl, output, created>>
    /\ UNCHANGED <<cacheVars, parseVars>>

\* lines 120-137: the line counts and the owner of the next review, then the
\* fetch of its details
ProcessReview ==
    /\ pc = "review"
    /\ review_idx <= Len(reviews)
    /\ LET review == reviews[review_idx]
           user_id == review.owner
       IN
       /\ project_additions' = project_additions + review.insertions
       /\ project_deletions' = project_deletions + review.deletions
       /\ IF CreatesRaises(contributors, user_id)
          THEN /\ pc' = "error"
               /\ UNCHANGED <<contributors, total_commits, created, gerrit,
                              messages, msg_idx, review_idx>>
          ELSE /\ contributors' = AddCommit(contributors, user_id)
               /\ total_commits' =
                      IF CommitCounted(contributors, user_id)
                      THEN total_commits + 1 ELSE total_commits
               /\ created' =
                      IF Creates(contributors, user_id)
                      THEN [created EXCEPT ![user_id] = @ + 1] ELSE created
               /\ \E details \in MessageLists :
                     /\ gerrit.details[review.number] # None
                            => details = gerrit.details[review.number][1]
                     /\ gerrit' = [gerrit EXCEPT
                                      !.details[review.number] = Some(details)]
                     /\ messages' = details
               /\ msg_idx' = 1
               /\ IF messages' = <<>>
                  THEN pc' = "review" /\ review_idx' = review_idx + 1
                  ELSE pc' = "message" /\ review_idx' = review_idx
    /\ UNCHANGED <<IGNORED_USERS, repositories, mode, repo_idx, reviews,
                   total_reviews, total_additions, total_deletions, cl, output,
                   queries, fetched>>
    /\ UNCHANGED <<cacheVars, parseVars>>

\* lines 138-151: the next message of the current review
ProcessMessage ==
    /\ pc = "message"
    /\ msg_idx <= Len(messages)
    /\ LET author_id == messages[msg_idx]
           patch_owner == reviews[review_idx].owner
       IN
       IF IsReview(author_id, patch_owner) /\ CreatesRaises(contributors, author_id[1])
       THEN /\ pc' = "error"
            /\ UNCHANGED <<contributors, created, msg_idx, review_idx>>
       ELSE /\ contributors' =
                   IF IsReview(author_id, patch_owner)
                   THEN AddReview(contributors, author_id[1]) ELSE contributors
            /\ created' =
                   IF IsReview(author_id, patch_owner)
                      /\ Creates(contributors, author_id[1])
                   THEN [created EXCEPT ![author_id[1]] = @ + 1] ELSE created
            /\ IF msg_idx = Len(messages)
               THEN pc' = "review" /\ review_idx' = review_idx + 1
                    /\ msg_idx' = msg_idx
               ELSE pc' = "message" /\ review_idx' = review_idx
                    /\ msg_idx' = msg_idx + 1
    /\ UNCHANGED <<IGNORED_USERS, repositories, mode, repo_idx, reviews, messages,
                   total_commits, total_reviews, total_additions, total_deletions,
                   project_additions, project_deletions, cl, output, gerrit,
                   queries, fetched>>
    /\ UNCHANGED <<cacheVars, parseVars>>

\* lines 153-154: the end of a repository
FinishRepository ==
    /\ pc = "review"
    /\ review_idx > Len(reviews)
    /\ total_additions' = total_additions + project_additions
    /\ total_deletions' = total_deletions + project_deletions
    /\ repo_idx' = repo_idx + 1
    /\ pc' = "repository"
    /\ UNCHANGED <<IGNORED_USERS, repositories, mode, reviews, review_idx, messages,
                   msg_idx, contributors, total_commits, total_reviews,
                   project_additions, project_deletions, cl, output, gerrit,
                   queries, fetched, created>>
    /\ UNCHANGED <<cacheVars, parseVars>>

\* lines 157-161: total_reviews and the reportable list
BuildReportable ==
    /\ pc = "repository"
    /\ repo_idx > Len(repositories)
    /\ total_reviews' = total_reviews + SumOver(contributors, "review_count")
    /\ cl' = SelectSeq(contributors, Reportable)
    /\ pc' = "report"
    /\ UNCHANGED <<IGNORED_USERS, repositories, mode, repo_idx, reviews, review_idx,
                   messages, msg_idx, contributors, total_commits, total_additions,
                   total_deletions, project_additions, project_deletions, output,
                   gerrit, queries, fetched, created>>
    /\ UNCHANGED <<cacheVars, parseVars>>

ReportUnchanged ==
    /\ UNCHANGED <<IGNORED_USERS, repositories, mode, repo_idx, reviews, review_idx,
                   messages, msg_idx, contributors, total_commits, total_reviews,
                   total_additions, total_deletions, project_additions,
                   project_deletions, cl, gerrit, queries, fetched, created>>
    /\ UNCHANGED <<cacheVars, parseVars>>

\* lines 163-177: --reviews
ReportReviews ==
    /\ pc = "report"
    /\ mode = "reviews"
    /\ LET sorted_list == SortedBy(cl, "review_count") IN
       IF ReportRaises(sorted_list, "review_count", total_reviews)
       THEN pc' = "error" /\ output' = output
       ELSE /\ output' = ReportLines(sorted_list, 1, "review_count", total_reviews, 0)
            /\ pc' = "done"
    /\ ReportUnchanged

\* lines 178-192: --commits
ReportCommits ==
    /\ pc = "report"
    /\ mode = "commits"
    /\ LET sorted_list == SortedBy(cl, "commits") IN
       IF ReportRaises(sorted_list, "commits", total_commits)
       THEN pc' = "error" /\ output' = output
       ELSE /\ output' = ReportLines(sorted_list, 1, "commits", total_commits, 0)
            /\ pc' = "done"
    /\ ReportUnchanged

\* lines 193-199: --summary
ReportSummary ==
    /\ pc = "report"
    /\ mode = "summary"
    /\ output' = SummaryLines
    /\ pc' = "done"
    /\ ReportUnchanged

Next ==
    \/ StartRepository
    \/ ProcessReview
    \/ ProcessMessage
    \/ FinishRepository
    \/ BuildReportable
    \/ ReportReviews
    \/ ReportCommits
    \/ ReportSummary

Spec == Init /\ [][Next]_vars

----------------------------------------------------------------------------
(* What the claims speak of, in terms of Gerrit's answers *)

\* the aggregation loop is over
Aggregated == pc \in {"report", "done"}

Events == 1..Len(fetched)
EventOwner(i) == gerrit.changes[fetched[i]][1].owner
EventMessages(i) == gerrit.details[fetched[i]][1]

\* the messages that count as a review by account a: <<event, message index>>
ReviewsBy(a) ==
    {<<i, j>> \in Events \X (1..MaxMessages + 1) :
        /\ j <= Len(EventMessages(i))
        /\ EventMessages(i)[j] = Some(a)
        /\ a # EventOwner(i)
        /\ ~Ignored(a)}

CountOf(d, a, f) == IF a \in Keys(d) THEN GetItem(d, a)[f] ELSE 0

RECURSIVE Concat(_)
Concat(ss) == IF ss = <<>> THEN <<>> ELSE ss[1] \o Concat(Tail(ss))

RECURSIVE SumOf(_, _)
SumOf(s, f) == IF s = <<>> THEN 0 ELSE gerrit.changes[s[1]][1][f] + SumOf(Tail(s), f)

\* C1: once the loop over the repositories is over, total_commits is the
\* number of fetched reviews, each occurrence counted, whose owner is not
\* ignored, and it is the sum of the commits of all Contributors.
C1_TotalCommits ==
    Aggregated =>
        /\ total_commits = Cardinality({i \in Events : ~Ignored(EventOwner(i))})
        /\ total_commits = SumOver(contributors, "commits")

C1_Witness ==
    /\ pc = "done"
    /\ \E i \in Events : Ignored(EventOwner(i))
    /\ \E i, j \in Events : i < j /\ fetched[i] = fetched[j] /\ ~Ignored(EventOwner(i))
    /\ total_commits >= 2

\* C2: in every state the dict has no key in the ignored set, a Contributor
\* is constructed at most once per account id, and a Contributor once in the
\* dict stays in its place with its id and name, its counters never
\* decreasing; the reportable list has no ignored account id either.
C2_State ==
    /\ \A i \in 1..Len(contributors) : ~Ignored(contributors[i].account_id)
    /\ \A i \in 1..Len(cl) : ~Ignored(cl[i].account_id)
    /\ \A a \in Accounts : created[a] <= 1
    /\ Cardinality(Keys(contributors)) = Len(contributors)

C2_Step ==
    /\ Len(contributors') >= Len(contributors)
    /\ \A i \in 1..Len(contributors) :
          /\ contributors'[i].account_id = contributors[i].account_id
          /\ contributors'[i].name = contributors[i].name
          /\ contributors'[i].commits >= contributors[i].commits
          /\ contributors'[i].review_count >= contributors[i].review_count

C2_NoIgnoredCreatedOnce == [](C2_State) /\ [][C2_Step]_vars

C2_Witness ==
    /\ pc = "done"
    /\ \E i \in Events : Ignored(EventOwner(i))
    /\ \E i \in Events : \E j \in 1..Len(EventMessages(i)) :
          /\ EventMessages(i)[j] # None
          /\ EventMessages(i)[j][1] # EventOwner(i)
          /\ Ignored(EventMessages(i)[j][1])
    /\ \E i \in 1..Len(contributors) :
          contributors[i].commits + contributors[i].review_count >= 2

\* C3: once the loop is over, the review_count of every account is the
\* number of messages of the fetched reviews that carry an author, that
\* author being the account, not the owner of the review and not ignored
\* (one per message, none for the other messages), and total_reviews, once
\* derived, is the sum of the review_count of all Contributors.
C3_ReviewCounts ==
    Aggregated =>
        /\ \A a \in Accounts :
              CountOf(contributors, a, "review_count") = Cardinality(ReviewsBy(a))
        /\ total_reviews = SumOver(contributors, "review_count")

C3_Witness ==
    /\ pc = "done"
    /\ \E i \in Events : \E a \in Accounts :
          /\ EventMessages(i) = <<Some(a), Some(a)>>
          /\ <<i, 1>> \in ReviewsBy(a)
    /\ \E i \in Events : \E j \in 1..Len(EventMessages(i)) :
          EventMessages(i)[j] = None
    /\ \E i \in Events : \E j \in 1..Len(EventMessages(i)) :
          /\ EventMessages(i)[j] # None
          /\ \/ EventMessages(i)[j][1] = EventOwner(i)
             \/ Ignored(EventMessages(i)[j][1])

\* the list of reviews the claim describes for one repository
ExpectedReviews(i) ==
    IF repositories[i].stable_branch = Some(TRUE)
    THEN queries[i].default \o queries[i].stable[1]
    ELSE queries[i].default

\* C4: the reviews of a repository flagged stable_branch are the answer of
\* the default-window query followed by that of the stable-branch query,
\* duplicates kept; a repository not flagged gets the first query only; and
\* at the end total_additions and total_deletions are the sums over every
\* element of these lists, whoever the owner is.
C4_ConcatenatedTotals ==
    /\ \A i \in 1..Len(queries) :
          (queries[i].stable # None) <=> (repositories[i].stable_branch = Some(TRUE))
    /\ fetched = Concat([i \in 1..Len(queries) |-> ExpectedReviews(i)])
    /\ Aggregated =>
          /\ Len(queries) = Len(repositories)
          /\ total_additions = SumOf(fetched, "insertions")
          /\ total_deletions = SumOf(fetched, "deletions")

C4_Witness ==
    /\ pc = "done"
    /\ \E i \in 1..Len(queries) :
          /\ queries[i].stable # None
          /\ RangeOf(queries[i].default) \cap RangeOf(queries[i].stable[1]) # {}
    /\ \E i \in Events : Ignored(EventOwner(i))
    /\ \E i \in Events : ~Ignored(EventOwner(i))

\* the field a leaderboard is keyed on
KeyField == IF mode = "reviews" THEN "review_count" ELSE "commits"

\* C7: the lines of a leaderboard are the Contributors of positive count,
\* each once, in non-increasing order of the count, those of equal count in
\* the order of their creation, and ranked 1..k.
C7_Leaderboard ==
    (pc = "done" /\ mode \in {"reviews", "commits"}) =>
        \E p \in [1..Len(output) -> 1..Len(contributors)] :
           /\ {p[k] : k \in 1..Len(output)} =
                 {i \in 1..Len(contributors) : contributors[i][KeyField] > 0}
           /\ \A k \in 1..Len(output) :
                 /\ output[k].rank = k
                 /\ output[k].count = contributors[p[k]][KeyField]
                 /\ Len(output[k].name) = Len(contributors[p[k]].name)
           /\ \A k, l \in 1..Len(output) :
                 k < l =>
                    \/ output[k].count > output[l].count
                    \/ output[k].count = output[l].count /\ p[k] < p[l]

C7_Witness ==
    /\ pc = "done"
    /\ mode \in {"reviews", "commits"}
    /\ Len(output) = 2
    /\ output[1].count = output[2].count
    /\ contributors[1].account_id > contributors[2].account_id
    /\ Len(output[1].name) > Len(output[2].name)

\* the accounts that own a fetched review or wrote a message on one they do
\* not own
Participants ==
    {EventOwner(i) : i \in Events} \cup
    {a \in Accounts : \E i \in Events : \E j \in 1..Len(EventMessages(i)) :
        EventMessages(i)[j] = Some(a) /\ a # EventOwner(i)}

\* C8: a configuration without ignored_users runs as one with an empty
\* list: the run completes and every owner and every other author of a
\* message becomes a Contributor; a repository without stable_branch gets
\* the default query only.
C8_AbsentAsEmpty ==
    /\ IGNORED_USERS = None =>
          /\ pc # "error"
          /\ Aggregated => Keys(contributors) = Participants
    /\ \A i \in 1..Len(queries) :
          repositories[i].stable_branch = None => queries[i].stable = None

\* C10: every Contributor of the dict has a positive commits or review_count,
\* so the reportable list is the whole dict, and the count of the summary is
\* the number of account ids a Contributor was constructed for.
C10_AllReportable ==
    /\ \A i \in 1..Len(contributors) : Reportable(contributors[i])
    /\ Aggregated => cl = contributors
    /\ (pc = "done" /\ mode = "summary") =>
          output[5].n = Cardinality({a \in Accounts : created[a] > 0})

C10_Witness ==
    /\ pc = "done"
    /\ mode = "summary"
    /\ output[5].n = 2
    /\ \E i \in 1..Len(contributors) : contributors[i].commits = 0
    /\ \E i \in 1..Len(contributors) : contributors[i].review_count = 0

----------------------------------------------------------------------------
(* The response parser *)

\* the longest response body
MaxBody == 7

\* the characters of a response body: those of Gerrit's prefix, the brackets
\* of a JSON array, and the newline that follows the prefix
Chars == {")", "]", "}", "'", "[", "\n"}

\* the first four characters of a Gerrit response
XSSIPrefix == <<")", "]", "}", "'">>

\* s[n:]
DropFirst(s, n) == SubSeq(s, n + 1, Len(s))

\* json: the whitespace before a token
RECURSIVE SkipWhitespace(_)
SkipWhitespace(t) ==
    IF t # <<>> /\ t[1] = "\n" THEN SkipWhitespace(Tail(t)) ELSE t

\* json: one value at the head of t, here an array of at most one value (the
\* bodies have no comma): whether there is one, the value, and the text left
RECURSIVE ScanOnce(_)
ScanOnce(t) ==
    IF t = <<>> \/ t[1] # "["
    THEN [ok |-> FALSE, value |-> <<>>, rest |-> t]
    ELSE LET u == SkipWhitespace(Tail(t)) IN
         IF u # <<>> /\ u[1] = "]"
         THEN [ok |-> TRUE, value |-> <<>>, rest |-> Tail(u)]
         ELSE LET r == ScanOnce(u)
                  v == SkipWhitespace(r.rest)
              IN IF r.ok /\ v # <<>> /\ v[1] = "]"
                 THEN [ok |-> TRUE, value |-> <<r.value>>, rest |-> Tail(v)]
                 ELSE [ok |-> FALSE, value |-> <<>>, rest |-> t]

\* json.loads: a value between whitespace and nothing else, or an exception
JsonLoads(t) ==
    LET r == ScanOnce(SkipWhitespace(t)) IN
    IF r.ok /\ SkipWhitespace(r.rest) = <<>>
    THEN [raised |-> FALSE, value |-> r.value]
    ELSE [raised |-> TRUE, value |-> <<>>]

\* a variant of response_body_to_json that refuses a body without the prefix
CheckedResponseBodyToJson(text) ==
    IF Len(text) >= 4 /\ SubSeq(text, 1, 4) = XSSIPrefix
    THEN JsonLoads(DropFirst(text, 4))
    ELSE [raised |-> TRUE, value |-> <<>>]

\* lines 34-37: json.loads(r.text[4:])
response_body_to_json(text) == JsonLoads(DropFirst(text, 4))

\* any body of at most MaxBody characters: its first four characters, or the
\* whole of a shorter one, and what follows them
InitParse ==
    /\ \E head \in SeqsUpTo(Chars, 4) :
       \E rest \in IF Len(head) = 4 THEN SeqsUpTo(Chars, MaxBody - 4) ELSE {<<>>} :
          body = head \o rest
    /\ parsed = None
    /\ IdleAgg /\ IdleCache

\* a response body is handed to the parser
Parse ==
    /\ parsed = None
    /\ parsed' = Some(response_body_to_json(body))
    /\ UNCHANGED <<body, aggVars, cacheVars>>

NextParse == Parse

SpecParse == InitParse /\ [][NextParse]_vars

HasPrefix(text) == Len(text) >= 4 /\ SubSeq(text, 1, 4) = XSSIPrefix

\* the text without its newlines
RECURSIVE Compact(_)
Compact(t) ==
    IF t = <<>> THEN <<>>
    ELSE IF t[1] = "\n" THEN Compact(Tail(t)) ELSE <<t[1]>> \o Compact(Tail(t))

\* k opening brackets followed by k closing ones, k >= 1: the arrays that
\* these characters can spell
IsNestedArray(t) ==
    /\ Len(t) >= 2
    /\ Len(t) % 2 = 0
    /\ \A i \in 1..Len(t) : t[i] = IF 2 * i <= Len(t) THEN "[" ELSE "]"

----------------------------------------------------------------------------
(* The cached fetch functions *)

\* the largest argument of a cached function (a url, account id or number)
MaxArg == 1
\* the most clock advances
MaxTicks == 2
\* the most cached calls
MaxCalls == 3
\* the most processes, one after the other
MaxRuns == 2

\* line 20: expiration_time
expiration_time == 7 * 24 * 60 * 60

Fns == {"get", "get_user_by_account_id", "get_review_details"}
Args == 1..MaxArg

\* what Gerrit may send back: two documents and a body that is not JSON
ServerBodies ==
    { XSSIPrefix \o <<"\n", "[", "]">>,
      XSSIPrefix \o <<"\n", "[", "[", "]", "]">>,
      XSSIPrefix \o <<"\n", "}">> }

\* the values the functions return and the cache stores
NoValue == [kind |-> "none", text |-> <<>>, json |-> <<>>]
Response(text) == [kind |-> "Response", text |-> text, json |-> <<>>]
Decoded(value) == [kind |-> "json", text |-> <<>>, json |-> value]

\* lines 65, 70, 78: cache_on_arguments keys an entry by function and arguments
Key(fn, arg) == <<fn, arg>>

\* a variant of Expired that expires an entry at the age of expiration_time
ExpiredAtLimit(ct) == clock - ct >= expiration_time

\* lines 18-22: an entry created at ct is expired once older than expiration_time
Expired(ct) == clock - ct > expiration_time

\* lines 65-81: the decorated function is not called when the region holds an
\* unexpired entry for the key
CacheHit(k) == \E e \in cache : e.key = k /\ ~Expired(e.ct)

CachedValue(k) == (CHOOSE e \in cache : e.key = k /\ ~Expired(e.ct)).value

\* the region stores what the decorated function returned, over any older entry
Store(k, v) == {e \in cache : e.key # k} \cup {[key |-> k, value |-> v, ct |-> clock]}

Called(fn, arg, requested, failed, returned) ==
    [fn |-> fn, arg |-> arg, requested |-> requested, failed |-> failed,
     returned |-> returned]

CacheUnchanged == UNCHANGED <<cache, storedAt, storedVal>>

Stored(fn, arg, v) ==
    /\ cache' = Store(Key(fn, arg), v)
    /\ storedAt' = [storedAt EXCEPT ![<<fn, arg>>] = Some(clock)]
    /\ storedVal' = [storedVal EXCEPT ![<<fn, arg>>] = Some(v)]

InitCache ==
    /\ cache = {}
    /\ clock = 0
    /\ nticks = 0
    /\ run = 1
    /\ ncalls = 0
    /\ last = Called("none", 0, FALSE, FALSE, NoValue)
    /\ storedAt = [c \in Fns \X Args |-> None]
    /\ storedVal = [c \in Fns \X Args |-> None]
    /\ IdleAgg /\ IdleParse

\* lines 51-52 (and 59-60) with lines 65-67: get(url) is the cached function,
\* and its caller parses the Response it returns
FetchMergedChanges(arg) ==
    /\ ncalls < MaxCalls
    /\ ncalls' = ncalls + 1
    /\ IF CacheHit(Key("get", arg))
       THEN LET r == CachedValue(Key("get", arg)) IN
            /\ last' = Called("get", arg, FALSE,
                              response_body_to_json(r.text).raised, r)
            /\ CacheUnchanged
       ELSE \/ /\ last' = Called("get", arg, TRUE, TRUE, NoValue)
               /\ CacheUnchanged
            \/ \E text \in ServerBodies :
               /\ Stored("get", arg, Response(text))
               /\ last' = Called("get", arg, TRUE,
                                 response_body_to_json(text).raised, Response(text))
    /\ UNCHANGED <<clock, nticks, run, aggVars, parseVars>>

\* lines 70-75 and 78-81: the cached function parses the response itself
FetchParsed(fn, arg) ==
    /\ ncalls < MaxCalls
    /\ ncalls' = ncalls + 1
    /\ IF CacheHit(Key(fn, arg))
       THEN /\ last' = Called(fn, arg, FALSE, FALSE, CachedValue(Key(fn, arg)))
            /\ CacheUnchanged
       ELSE \/ /\ last' = Called(fn, arg, TRUE, TRUE, NoValue)
               /\ CacheUnchanged
            \/ \E text \in ServerBodies :
               LET p == response_body_to_json(text) IN
               IF p.raised
               THEN /\ last' = Called(fn, arg, TRUE, TRUE, NoValue)
                    /\ CacheUnchanged
               ELSE /\ Stored(fn, arg, Decoded(p.value))
                    /\ last' = Called(fn, arg, TRUE, FALSE, Decoded(p.value))
    /\ UNCHANGED <<clock, nticks, run, aggVars, parseVars>>

\* lines 70-75
FetchAccount(arg) == FetchParsed("get_user_by_account_id", arg)

\* lines 78-81
FetchChangeDetail(arg) == FetchParsed("get_review_details", arg)

\* time passes: a second, or the whole of expiration_time
Tick(d) ==
    /\ nticks < MaxTicks
    /\ nticks' = nticks + 1
    /\ clock' = clock + d
    /\ UNCHANGED <<cache, run, ncalls, last, storedAt, storedVal, aggVars, parseVars>>

\* the script ends and is started again: file.dbm stays as it is
Restart ==
    /\ run < MaxRuns
    /\ run' = run + 1
    /\ UNCHANGED <<cache, clock, nticks, ncalls, last, storedAt, storedVal,
                   aggVars, parseVars>>

NextCache ==
    \/ \E arg \in Args : FetchMergedChanges(arg)
    \/ \E arg \in Args : FetchAccount(arg)
    \/ \E arg \in Args : FetchChangeDetail(arg)
    \/ \E d \in {1, expiration_time} : Tick(d)
    \/ Restart

SpecCache == InitCache /\ [][NextCache]_vars

SevenDays == 7 * 24 * 60 * 60

\* the entry the store holds for a call, if any
EntriesOf(c) == {e \in cache : e.key = c}

C5_State ==
    \A c \in Fns \X Args :
       IF storedAt[c] = None
       THEN EntriesOf(c) = {}
       ELSE EntriesOf(c) = {[key |-> c, value |-> storedVal[c][1], ct |-> storedAt[c][1]]}

C5_Step ==
    ncalls' # ncalls =>
       LET c == <<last'.fn, last'.arg>> IN
       /\ last'.requested <=>
             (storedAt[c] = None \/ clock - storedAt[c][1] > SevenDays)
       /\ ~last'.requested =>
             /\ last'.returned = storedVal[c][1]
             /\ cache' = cache
       /\ (last'.requested /\ last'.returned # NoValue) =>
             /\ storedAt'[c] = Some(clock)
             /\ storedVal'[c] = Some(last'.returned)

\* C5: a cached fetch makes a network request exactly when no entry is stored
\* for its function and arguments or the entry is older than 7 days, across
\* restarts; otherwise it returns the stored value and leaves the store alone;
\* what a request returns replaces the entry.
C5_CachedFetch == [](C5_State) /\ [][C5_Step]_vars

C5_Witness ==
    /\ run = 2
    /\ last.fn # "none"
    /\ ~last.requested
    /\ clock - storedAt[<<last.fn, last.arg>>][1] = SevenDays

\* C6: after a fetch that failed, the store holds no entry that a later call
\* with the same arguments would be answered from.
C6_FailureUncached ==
    (last.fn # "none" /\ last.failed) =>
        \A e \in EntriesOf(<<last.fn, last.arg>>) : clock - e.ct > SevenDays

====
